---- MODULE Spec2Model ----
(***************************************************************************)
(* Voice Reserve AI: the in-memory reservation calendar                    *)
(* (app/calendar.py), the per-call reservation session (app/agent.py) and  *)
(* the websocket relay handler with its session registry (app/main.py).    *)
(***************************************************************************)
EXTENDS Integers, Sequences, FiniteSets, TLC

(***************************************************************************)
(* Bounds of the model.                                                    *)
(***************************************************************************)
\* clock ticks per second of wall-clock time (datetime.now() is finer than
\* the one-second resolution of the id format)
TicksPerSecond == 2
\* last clock tick the calendar is observed at
MaxClock == 3
\* number of add_reservation calls
MaxAdds == 2
\* number of relay connections the gateway opens
NConn == 2
\* number of inbound frames the gateway sends, over all connections
MaxFrames == 2

VARIABLES
    now,            \* wall clock read by datetime.now(), in ticks
    reservations,   \* ReservationCalendar.reservations: id -> Reservation
    added,          \* the Reservations returned by add_reservation, in call order
    cancelCalled,   \* for each of them, whether cancel was called on its id since
    last,           \* the latest calendar call: operation, argument, result
    prev,           \* the calendar call before it
    pc,             \* per connection: where its llm_websocket handler is suspended
    call_id,        \* per connection: the call_id path parameter
    session,        \* per connection: the local `session` (None or its ReservationSession)
    sessions,       \* the registry: call_id -> connection whose session object it holds
    message,        \* per connection: the local `message` of the frame in hand
    response_id,    \* per connection: the local `response_id` of the frame in hand
    pending,        \* per connection: the dict a suspended send_json is sending
    out,            \* per connection: the frames send_json delivered to the gateway
    ended,          \* per connection: how the handler returned
    inbound,        \* the frame receive_json returned last: its number, its
                    \* connection, whether that had no session yet, the frame
    http,           \* the latest POST /chat exchange: request, model, response
    tool_call       \* the latest tool invocation: tool, arguments, outcome

storeVars == <<now, reservations, added, cancelCalled, last, prev>>

relayVars == <<pc, call_id, session, sessions, message, response_id, pending,
               out, ended, inbound>>

agentVars == <<http, tool_call>>

vars == <<now, reservations, added, cancelCalled, last, prev,
          pc, call_id, session, sessions, message, response_id, pending,
          out, ended, inbound, http, tool_call>>

(***************************************************************************)
(* Availability store: app/calendar.py                                     *)
(***************************************************************************)
Dates == {"2024-03-20", "2024-03-21"}
PartySizes == {2, 4}
Names == {"John Doe"}
Phones == {"+1234567890"}

\* strftime('%Y%m%d%H%M%S'): the clock reading cut down to whole seconds
Strftime(t) == t \div TicksPerSecond

\* f"RES-{...}"
ReservationId(t) == <<"RES", Strftime(t)>>

\* every id the clock can produce, and one it never produces
ReservationIds == {ReservationId(t) : t \in 0..MaxClock} \cup {<<"RES", -1>>}

\* class Reservation, status defaulting to "confirmed"
Reservation(rid, date, party_size, customer_name, phone_number) ==
    [reservation_id |-> rid, date |-> date, party_size |-> party_size,
     customer_name |-> customer_name, phone_number |-> phone_number,
     status |-> "confirmed"]

\* dict.get(reservation_id): <<>> stands for None, <<r>> for a found record
get_reservation(rid) ==
    IF rid \in DOMAIN reservations THEN <<reservations[rid]>> ELSE <<>>

\* status of an id in a store, "absent" when the id is no key of it
StatusIn(store, rid) ==
    IF rid \in DOMAIN store THEN store[rid].status ELSE "absent"

NoCall == [op |-> "none", id |-> <<"RES", -1>>, ret |-> <<>>,
           before |-> "absent", after |-> "absent"]

Call(op, rid, ret, store) ==
    [op |-> op, id |-> rid, ret |-> ret,
     before |-> StatusIn(reservations, rid), after |-> StatusIn(store, rid)]

\* self.reservations[reservation_id] = reservation
Put(rid, r) ==
    [i \in DOMAIN reservations \cup {rid} |-> IF i = rid THEN r ELSE reservations[i]]

add_reservation(date, party_size, customer_name, phone_number) ==
    LET rid == ReservationId(now)
        r == Reservation(rid, date, party_size, customer_name, phone_number)
        store == Put(rid, r)
    IN  /\ Len(added) < MaxAdds
        /\ reservations' = store
        /\ added' = Append(added, r)
        /\ cancelCalled' = Append(cancelCalled, FALSE)
        /\ prev' = last
        /\ last' = Call("add", rid, <<r>>, store)
        /\ UNCHANGED now
        /\ UNCHANGED relayVars
        /\ UNCHANGED agentVars

GetReservation(rid) ==
    /\ prev' = last
    /\ last' = Call("get", rid, get_reservation(rid), reservations)
    /\ UNCHANGED <<now, reservations, added, cancelCalled>>
    /\ UNCHANGED relayVars
    /\ UNCHANGED agentVars

\* a cancel that refuses an already cancelled reservation
cancel_once(rid) ==
    IF rid \in DOMAIN reservations /\ reservations[rid].status = "confirmed"
    THEN <<TRUE, [reservations EXCEPT ![rid].status = "cancelled"]>>
    ELSE <<FALSE, reservations>>

\* a cancel that does not look the id up
cancel_unchecked(rid) ==
    <<TRUE, reservations>>

\* cancel_reservation: <<return value, the store afterwards>>
cancel_reservation(rid) ==
    IF rid \in DOMAIN reservations
    THEN <<TRUE, [reservations EXCEPT ![rid].status = "cancelled"]>>
    ELSE <<FALSE, reservations>>

CancelReservation(rid) ==
    LET res == cancel_reservation(rid)
    IN  /\ reservations' = res[2]
        /\ prev' = last
        /\ last' = Call("cancel", rid, res[1], res[2])
        /\ cancelCalled' = [i \in DOMAIN added |->
                               cancelCalled[i] \/ added[i].reservation_id = rid]
        /\ UNCHANGED <<now, added>>
        /\ UNCHANGED relayVars
        /\ UNCHANGED agentVars

\* time passes between two calls
Tick ==
    /\ now < MaxClock
    /\ now' = now + 1
    /\ UNCHANGED <<reservations, added, cancelCalled, last, prev>>
    /\ UNCHANGED relayVars
    /\ UNCHANGED agentVars

(***************************************************************************)
(* Values exchanged with the voice gateway and the model.                  *)
(***************************************************************************)
\* Python's None and a present value: <<>> and <<v>>
None == << >>
Some(v) == <<v>>

Conns == 1..NConn
CallIds == {"call-A", "call-B"}
\* connections and call ids are named in order of appearance: the first
\* connection's call id is "call-A"
CallIdsFor(c) == IF c = 1 THEN {"call-A"} ELSE CallIds

\* reservation parameter dicts a frame can carry; EmptyDict is {}, which is falsy
EmptyDict == [date |-> "", time |-> "", people |-> 0, name |-> ""]
ParamsA == [date |-> "2025-01-10", time |-> "18:30", people |-> 2, name |-> "Ann Lee"]
ParamsB == [date |-> "2025-02-14", time |-> "20:00", people |-> 6, name |-> "Bob Ray"]

\* transcript entries
Entry(role, content) == [role |-> role, content |-> content]
Transcripts ==
    { << >>,
      <<Entry("agent", "Hi")>>,
      <<Entry("user", "Hello")>>,
      <<Entry("user", "Hello"), Entry("agent", "Hi")>>,
      <<Entry("user", "Hello"), Entry("user", "")>>,
      <<Entry("user", "Hello"), Entry("user", "Table for four"), Entry("agent", "Hi")>> }

\* inbound frames: an absent key reads as None (dict.get), an absent
\* interaction_type as the string "None"
Frames ==
    [metadata : {None, Some(EmptyDict), Some(ParamsA)},
     reservation_params : {None, Some(ParamsB)},
     interaction_type : {"None", "update_only", "response_required"},
     response_id : {None, Some(0)},
     transcript : {None} \cup {Some(t) : t \in Transcripts}]

\* the frame of a connection that received none yet
NoData == [metadata |-> None, reservation_params |-> None, interaction_type |-> "None",
           response_id |-> None, transcript |-> None]

\* the frames exchanged when several connections are open at once
SharedFrames ==
    {f \in Frames : /\ f.metadata # Some(EmptyDict)
                    /\ f.reservation_params = None
                    /\ f.response_id = None
                    /\ f.transcript \in {Some(<< >>), Some(<<Entry("user", "Hello")>>)}}

\* what a failing receive_json raises
Raised == {"WebSocketDisconnect", "Exception"}

\* texts the model replies with
Replies == {"Certainly."}

(***************************************************************************)
(* Reservation session: app/agent.py                                       *)
(***************************************************************************)
\* ReservationSession.__init__
ReservationSession(reservation_params) ==
    [reservation_params |-> reservation_params, chat_history |-> << >>]

\* a process_message that records the reply before the message
append_reply_first(s, msg, output) ==
    [s EXCEPT !.chat_history =
        Append(Append(@, [role |-> "assistant", content |-> output]),
               [role |-> "user", content |-> msg])]

\* ReservationSession.process_message after ainvoke has returned `output`
process_message(s, msg, output) ==
    [s EXCEPT !.chat_history =
        Append(Append(@, [role |-> "user", content |-> msg]),
               [role |-> "assistant", content |-> output])]

(***************************************************************************)
(* Relay handler: app/main.py, llm_websocket                               *)
(***************************************************************************)
\* truth value of an optional dict: None and {} are falsy
Truthy(d) == d # None /\ d[1] # EmptyDict

\* Python's `a or b`
Or(a, b) == IF Truthy(a) THEN a ELSE b

\* the hardcoded test data used when the gateway sent no parameters
Fallback == [date |-> "2024-03-20", time |-> "19:00", people |-> 4, name |-> "John Doe"]

\* a binding that has no test data to fall back on
reservation_params_or_empty(data) ==
    LET given == Or(data.metadata, data.reservation_params)
    IN  IF ~Truthy(given) THEN EmptyDict ELSE given[1]

\* the parameters the first frame binds
reservation_params_of(data) ==
    LET given == Or(data.metadata, data.reservation_params)
    IN  IF ~Truthy(given) THEN Fallback ELSE given[1]

\* a handler that binds a fresh session on every frame
bind_every_frame(cur, data) == Some(ReservationSession(reservation_params_of(data)))

\* `if not session: ... session = ReservationSession(agent, reservation_params)`
bind_session(cur, data) ==
    IF cur = None
    THEN Some(ReservationSession(reservation_params_of(data)))
    ELSE cur

\* a filter that lets every frame but an update through
response_unless_update(data) == data.interaction_type # "update_only"

\* the filter: `interaction_type != "response_required"` skips the frame
response_required(data) == data.interaction_type = "response_required"

\* the content of the last entry with role user, searching from the end
RECURSIVE last_user_content(_)
last_user_content(t) ==
    IF t = << >> THEN None
    ELSE IF t[Len(t)].role = "user" THEN Some(t[Len(t)].content)
    ELSE last_user_content(SubSeq(t, 1, Len(t) - 1))

\* an extraction that stops at the first user entry
first_user_message(data) ==
    IF data.transcript # None /\ Len(data.transcript[1]) > 0
    THEN LET t == data.transcript[1]
             users == {i \in DOMAIN t : t[i].role = "user"}
         IN  IF users = {} THEN None
             ELSE Some(t[CHOOSE i \in users : \A j \in users : i <= j].content)
    ELSE None

\* the local `message` after the extraction block
extract_message(data) ==
    IF data.transcript # None /\ Len(data.transcript[1]) > 0
    THEN last_user_content(data.transcript[1])
    ELSE None

\* `not message`: None or the empty string
NoMessage(m) == m = None \/ m[1] = ""

\* outbound dicts
Priming == [content |-> "", content_complete |-> TRUE]

\* `if response_id:` in place of `if response_id is not None:`
WithTruthyResponseId(d, rid) ==
    IF rid # None /\ rid[1] # 0
    THEN [k \in DOMAIN d \cup {"response_id"} |->
            IF k = "response_id" THEN rid[1] ELSE d[k]]
    ELSE d

\* `if response_id is not None: d["response_id"] = response_id`
WithResponseId(d, rid) ==
    IF rid # None
    THEN [k \in DOMAIN d \cup {"response_id"} |->
            IF k = "response_id" THEN rid[1] ELSE d[k]]
    ELSE d

ErrorDict(text) == [error |-> text, content_complete |-> TRUE]

\* a reply that leaves the turn open
response_incomplete(text) == [content |-> text, content_complete |-> FALSE]

\* response_dict = {"content": response, "content_complete": True}
ResponseDict(text) == [content |-> text, content_complete |-> TRUE]

\* sessions.pop(call_id, None)
Pop(k) == [j \in DOMAIN sessions \ {k} |-> sessions[j]]

\* sessions[call_id] = session, when the handler of connection c holds one
Register(c, created) ==
    IF created
    THEN [j \in DOMAIN sessions \cup {call_id[c]} |->
            IF j = call_id[c] THEN c ELSE sessions[j]]
    ELSE sessions

NoInbound == [count |-> 0, conn |-> 0, first |-> FALSE, data |-> NoData]

\* the handler loops back to `await websocket.receive_json()`: the locals of
\* the frame it handled are dead (each is assigned again before it is read)
AwaitFrame(c) ==
    /\ pc' = [pc EXCEPT ![c] = "receive"]
    /\ message' = [message EXCEPT ![c] = None]
    /\ response_id' = [response_id EXCEPT ![c] = None]
    /\ pending' = [pending EXCEPT ![c] = None]

\* websocket.accept(), the priming frame, `session = None`; a connection
\* whose accept or priming send raises never enters the loop and is not opened
Connect(c, k) ==
    /\ pc[c] = "idle"
    /\ \A d \in Conns : d < c => pc[d] # "idle"
    /\ k \in CallIdsFor(c)
    /\ pc' = [pc EXCEPT ![c] = "receive"]
    /\ call_id' = [call_id EXCEPT ![c] = k]
    /\ out' = [out EXCEPT ![c] = <<Priming>>]
    /\ UNCHANGED <<session, sessions, message, response_id, pending, ended, inbound>>
    /\ UNCHANGED storeVars
    /\ UNCHANGED agentVars

\* receive_json returns `data`; the handler runs to its next await
Receive(c, data) ==
    /\ pc[c] = "receive"
    /\ inbound.count < MaxFrames
    /\ inbound' = [count |-> inbound.count + 1, conn |-> c,
                   first |-> session[c] = None, data |-> data]
    /\ session' = [session EXCEPT ![c] = bind_session(session[c], data)]
    /\ sessions' = Register(c, session[c] = None)
    /\ IF ~response_required(data)
       THEN AwaitFrame(c)
       ELSE /\ message' = [message EXCEPT ![c] = extract_message(data)]
            /\ response_id' = [response_id EXCEPT ![c] = data.response_id]
            /\ IF NoMessage(extract_message(data))
               THEN /\ pending' = [pending EXCEPT ![c] =
                          Some(WithResponseId(ErrorDict("No message provided."),
                                              data.response_id))]
                    /\ pc' = [pc EXCEPT ![c] = "send"]
               ELSE /\ pc' = [pc EXCEPT ![c] = "invoke"]
                    /\ UNCHANGED pending
    /\ UNCHANGED <<call_id, out, ended>>
    /\ UNCHANGED storeVars
    /\ UNCHANGED agentVars

\* receive_json raises WebSocketDisconnect (the peer is gone) or another
\* exception (the peer sent no JSON): the inner `except Exception` takes
\* both, and `break` leaves the loop and the handler
ReceiveRaises(c, exc) ==
    /\ pc[c] = "receive"
    /\ pc' = [pc EXCEPT ![c] = "done"]
    /\ ended' = [ended EXCEPT ![c] =
                    IF exc = "WebSocketDisconnect" THEN "disconnect_on_receive"
                    ELSE "receive_failed"]
    /\ UNCHANGED <<call_id, session, sessions, message, response_id, pending,
                   out, inbound>>
    /\ UNCHANGED storeVars
    /\ UNCHANGED agentVars

\* the model call inside session.process_message returns
InvokeReturns(c, output) ==
    /\ pc[c] = "invoke"
    /\ session' = [session EXCEPT ![c] =
                      Some(process_message(session[c][1], message[c][1], output))]
    /\ pending' = [pending EXCEPT ![c] =
                      Some(WithResponseId(ResponseDict(output), response_id[c]))]
    /\ pc' = [pc EXCEPT ![c] = "send"]
    /\ UNCHANGED <<call_id, sessions, message, response_id, out, ended, inbound>>
    /\ UNCHANGED storeVars
    /\ UNCHANGED agentVars

\* a process_message that records the user turn before the model call
InvokeRaisesAfterAppend(c) ==
    /\ pc[c] = "invoke"
    /\ session' = [session EXCEPT ![c] =
                      Some([@[1] EXCEPT !.chat_history =
                               Append(@, [role |-> "user", content |-> message[c][1]])])]
    /\ pending' = [pending EXCEPT ![c] = Some(ErrorDict("model call failed"))]
    /\ pc' = [pc EXCEPT ![c] = "except_send"]
    /\ UNCHANGED <<call_id, sessions, message, response_id, out, ended, inbound>>
    /\ UNCHANGED storeVars
    /\ UNCHANGED agentVars

\* the model call raises: `except Exception` builds its error dict
InvokeRaises(c) ==
    /\ pc[c] = "invoke"
    /\ pending' = [pending EXCEPT ![c] = Some(ErrorDict("model call failed"))]
    /\ pc' = [pc EXCEPT ![c] = "except_send"]
    /\ UNCHANGED <<call_id, session, sessions, message, response_id, out, ended, inbound>>
    /\ UNCHANGED storeVars
    /\ UNCHANGED agentVars

\* send_json of the reply or of the no-message error returns
SendReturns(c) ==
    /\ pc[c] = "send"
    /\ out' = [out EXCEPT ![c] = Append(@, pending[c][1])]
    /\ AwaitFrame(c)
    /\ UNCHANGED <<call_id, session, sessions, ended, inbound>>
    /\ UNCHANGED storeVars
    /\ UNCHANGED agentVars

\* send_json raises WebSocketDisconnect: `sessions.pop(call_id, None)`
SendDisconnected(c) ==
    /\ pc[c] = "send"
    /\ sessions' = Pop(call_id[c])
    /\ pc' = [pc EXCEPT ![c] = "done"]
    /\ ended' = [ended EXCEPT ![c] = "disconnect"]
    /\ pending' = [pending EXCEPT ![c] = None]
    /\ UNCHANGED <<call_id, session, message, response_id, out, inbound>>
    /\ UNCHANGED storeVars
    /\ UNCHANGED agentVars

\* send_json raises another exception: `except Exception` builds its error dict
SendRaises(c) ==
    /\ pc[c] = "send"
    /\ pending' = [pending EXCEPT ![c] = Some(ErrorDict("send failed"))]
    /\ pc' = [pc EXCEPT ![c] = "except_send"]
    /\ UNCHANGED <<call_id, session, sessions, message, response_id, out, ended, inbound>>
    /\ UNCHANGED storeVars
    /\ UNCHANGED agentVars

\* in `except Exception`: send_json(error_dict) returns
ExceptSendReturns(c) ==
    /\ pc[c] = "except_send"
    /\ out' = [out EXCEPT ![c] = Append(@, pending[c][1])]
    /\ pending' = [pending EXCEPT ![c] = None]
    /\ pc' = [pc EXCEPT ![c] = "except_close"]
    /\ UNCHANGED <<call_id, session, sessions, message, response_id, ended, inbound>>
    /\ UNCHANGED storeVars
    /\ UNCHANGED agentVars

\* in `except Exception`: send_json(error_dict) raises, out of the handler
ExceptSendRaises(c) ==
    /\ pc[c] = "except_send"
    /\ pending' = [pending EXCEPT ![c] = None]
    /\ pc' = [pc EXCEPT ![c] = "done"]
    /\ ended' = [ended EXCEPT ![c] = "raised"]
    /\ UNCHANGED <<call_id, session, sessions, message, response_id, out, inbound>>
    /\ UNCHANGED storeVars
    /\ UNCHANGED agentVars

\* in `except Exception`: websocket.close() returns, `sessions.pop(call_id, None)`
ExceptCloseReturns(c) ==
    /\ pc[c] = "except_close"
    /\ sessions' = Pop(call_id[c])
    /\ pc' = [pc EXCEPT ![c] = "done"]
    /\ ended' = [ended EXCEPT ![c] = "closed"]
    /\ UNCHANGED <<call_id, session, message, response_id, pending, out, inbound>>
    /\ UNCHANGED storeVars
    /\ UNCHANGED agentVars

\* in `except Exception`: websocket.close() raises, out of the handler
ExceptCloseRaises(c) ==
    /\ pc[c] = "except_close"
    /\ pc' = [pc EXCEPT ![c] = "done"]
    /\ ended' = [ended EXCEPT ![c] = "raised"]
    /\ UNCHANGED <<call_id, session, sessions, message, response_id, pending, out, inbound>>
    /\ UNCHANGED storeVars
    /\ UNCHANGED agentVars

(***************************************************************************)
(* The agent's tools (app/agent.py) and the chat endpoint (app/main.py).   *)
(***************************************************************************)
\* how a Python call ends: it returns a value or raises an exception
Return(v) == [kind |-> "return", value |-> v]
Raise(m) == [kind |-> "raise", msg |-> m]

\* a date string, character by character
DigitChars == {"0", "1", "2", "3", "4", "5", "6", "7", "8", "9"}
DateStrings ==
    { <<"2", "0", "2", "4", "-", "0", "3", "-", "2", "0">>,
      <<"2", "0", "2", "4", "-", "2", "-", "2", "9">>,
      <<"2", "0", "2", "3", "-", "0", "2", "-", "2", "9">>,
      <<"2", "0", "-", "0", "3", "-", "2", "0", "2", "4">>,
      <<"i", "n", "v", "a", "l", "i", "d", "-", "d", "a", "t", "e">> }
TimeStrings == {"19:00", "7pm"}

DigitValue(ch) ==
    CASE ch = "0" -> 0 [] ch = "1" -> 1 [] ch = "2" -> 2 [] ch = "3" -> 3
      [] ch = "4" -> 4 [] ch = "5" -> 5 [] ch = "6" -> 6 [] ch = "7" -> 7
      [] ch = "8" -> 8 [] ch = "9" -> 9

\* the number a run of digits writes
RECURSIVE ToInt(_)
ToInt(s) ==
    IF s = << >> THEN 0
    ELSE 10 * ToInt(SubSeq(s, 1, Len(s) - 1)) + DigitValue(s[Len(s)])

\* the runs of characters between the "-" of a string
RECURSIVE Fields(_)
Fields(s) ==
    IF s = << >> THEN << << >> >>
    ELSE LET rest == Fields(Tail(s))
         IN  IF Head(s) = "-" THEN << << >> >> \o rest
             ELSE << <<Head(s)>> \o rest[1] >> \o Tail(rest)

\* a run of lo to hi digits
IsNumber(f, lo, hi) ==
    /\ Len(f) >= lo
    /\ Len(f) <= hi
    /\ \A i \in DOMAIN f : f[i] \in DigitChars

DaysInMonth(y, m) ==
    IF m \in {4, 6, 9, 11} THEN 30
    ELSE IF m # 2 THEN 31
    ELSE IF y % 4 = 0 /\ (y % 100 # 0 \/ y % 400 = 0) THEN 29
    ELSE 28

\* datetime.strptime(date, "%Y-%m-%d"): a four-digit year, a month and a day
\* of one or two digits, nothing else, and a date the calendar has
strptime(date) ==
    LET f == Fields(date)
    IN  IF \/ Len(f) # 3
           \/ ~IsNumber(f[1], 4, 4)
           \/ ~IsNumber(f[2], 1, 2)
           \/ ~IsNumber(f[3], 1, 2)
        THEN Raise("time data does not match format '%Y-%m-%d'")
        ELSE LET y == ToInt(f[1])
                 m == ToInt(f[2])
                 d == ToInt(f[3])
             IN  IF m < 1 \/ m > 12 \/ d < 1 \/ d > 31
                 THEN Raise("time data does not match format '%Y-%m-%d'")
                 ELSE IF y < 1 THEN Raise("year 0 is out of range")
                 ELSE IF d > DaysInMonth(y, m)
                 THEN Raise("day is out of range for month")
                 ELSE Return([year |-> y, month |-> m, day |-> d])

\* the calendar's placeholders
available_times == <<"11:00", "11:30", "12:00", "12:30", "13:00", "13:30",
                     "18:00", "18:30", "19:00", "19:30", "20:00", "20:30">>
get_available_times(date_obj, party_size) == available_times
calendar_check_availability(date_obj, time, party_size) == TRUE

\* reservation_params.get("people", 2), reservation_params possibly None
people_of(reservation_params) ==
    IF reservation_params = None
    THEN Raise("'NoneType' object has no attribute 'get'")
    ELSE Return(reservation_params[1].people)

\* the body of initialize_agent's check_availability inside its `try`
check_availability_body(reservation_params, date, time) ==
    LET date_obj == strptime(date)
        people == people_of(reservation_params)
    IN  IF date_obj.kind = "raise" THEN date_obj
        ELSE IF people.kind = "raise" THEN people
        ELSE Return([available |->
                        calendar_check_availability(date_obj.value, time, people.value),
                     suggested_times |->
                        get_available_times(date_obj.value, people.value)])

\* the tool without its `except`
check_availability_uncaught(reservation_params, date, time) ==
    check_availability_body(reservation_params, date, time)

\* initialize_agent's tool: `except Exception as e: return {"error": str(e)}`
check_availability(reservation_params, date, time) ==
    LET r == check_availability_body(reservation_params, date, time)
    IN  IF r.kind = "raise" THEN Return([error |-> r.msg]) ELSE r

\* ReservationAgent._create_tools: check_availability
agent_check_availability(date, party_size) ==
    Return([available |-> TRUE, suggested_times |-> <<"19:00", "19:30", "20:00">>])

\* ReservationAgent._create_tools: make_reservation; the message is
\* f"Reservation confirmed for {name} on {date} at {time}"
make_reservation(date, time, party_size, name) ==
    Return([success |-> TRUE, reservation_id |-> "12345",
            confirmation_message |->
                <<"Reservation confirmed for ", name, " on ", date, " at ", time>>])

ToolCall(tool, args, result) == Some([tool |-> tool, args |-> args, result |-> result])

\* tool.invoke on the tool initialize_agent(reservation_params) built
InvokeCheckAvailability(reservation_params, date, time) ==
    /\ tool_call' = ToolCall("initialize_agent.check_availability",
                             [reservation_params |-> reservation_params,
                              date |-> date, time |-> time],
                             check_availability(reservation_params, date, time))
    /\ UNCHANGED <<http, storeVars, relayVars>>

InvokeAgentCheckAvailability(date, party_size) ==
    /\ tool_call' = ToolCall("ReservationAgent.check_availability",
                             [date |-> date, party_size |-> party_size],
                             agent_check_availability(date, party_size))
    /\ UNCHANGED <<http, storeVars, relayVars>>

InvokeMakeReservation(date, time, party_size, name) ==
    /\ tool_call' = ToolCall("ReservationAgent.make_reservation",
                             [date |-> date, time |-> time,
                              party_size |-> party_size, name |-> name],
                             make_reservation(date, time, party_size, name))
    /\ UNCHANGED <<http, storeVars, relayVars>>

\* what an instance of ReservationAgent has: the attributes __init__ sets
\* and the methods of the class
ReservationAgentAttributes ==
    {"settings", "llm", "tools",
     "_create_tools", "build_prompt", "create_agent_with_prompt"}

\* attribute lookup on the module-level `agent`
getattr(name) ==
    IF name \in ReservationAgentAttributes
    THEN Return(name)
    ELSE Raise(<<"'ReservationAgent' object has no attribute ", name>>)

\* chat request bodies, and what the model would do with the message
ChatMessages == {"Hello", "Book a table"}
ChatHistories == {None, Some(<< >>), Some(<<Entry("user", "Hi")>>)}
ChatRequests == [message : ChatMessages, chat_history : ChatHistories]
ModelOutcomes == {Return(r) : r \in Replies} \cup {Raise("model call failed")}

\* the chat endpoint: `await agent.process_message(...)` under
\* `except Exception as e: raise HTTPException(status_code=500, detail=str(e))`
chat(request, model) ==
    LET method == getattr("process_message")
        response == IF method.kind = "raise" THEN method ELSE model
    IN  IF response.kind = "return"
        THEN [status |-> 200, body |-> [response |-> response.value]]
        ELSE [status |-> 500, body |-> [detail |-> response.msg]]

\* POST /chat
Chat(request, model) ==
    /\ http' = Some([request |-> request, model |-> model,
                     response |-> chat(request, model)])
    /\ UNCHANGED <<tool_call, storeVars, relayVars>>

RelayInit ==
    /\ pc = [c \in Conns |-> "idle"]
    /\ call_id = [c \in Conns |-> ""]
    /\ session = [c \in Conns |-> None]
    /\ sessions = << >>
    /\ message = [c \in Conns |-> None]
    /\ response_id = [c \in Conns |-> None]
    /\ pending = [c \in Conns |-> None]
    /\ out = [c \in Conns |-> << >>]
    /\ ended = [c \in Conns |-> ""]
    /\ inbound = NoInbound

StoreInit ==
    /\ now = 0
    /\ reservations = << >>
    /\ added = << >>
    /\ cancelCalled = << >>
    /\ last = NoCall
    /\ prev = NoCall

AgentInit ==
    /\ http = None
    /\ tool_call = None

Init == StoreInit /\ RelayInit /\ AgentInit

NextStore ==
    \/ \E d \in Dates, p \in PartySizes, n \in Names, ph \in Phones :
          add_reservation(d, p, n, ph)
    \/ \E rid \in ReservationIds : GetReservation(rid)
    \/ \E rid \in ReservationIds : CancelReservation(rid)
    \/ Tick

SpecStore == Init /\ [][NextStore]_vars

Next ==
    \/ \E c \in Conns, k \in CallIds : Connect(c, k)
    \/ \E c \in Conns, data \in SharedFrames : Receive(c, data)
    \/ \E c \in Conns, exc \in Raised : ReceiveRaises(c, exc)
    \/ \E c \in Conns, output \in Replies : InvokeReturns(c, output)
    \/ \E c \in Conns : InvokeRaises(c)
    \/ \E c \in Conns : SendReturns(c)
    \/ \E c \in Conns : SendDisconnected(c)
    \/ \E c \in Conns : SendRaises(c)
    \/ \E c \in Conns : ExceptSendReturns(c)
    \/ \E c \in Conns : ExceptSendRaises(c)
    \/ \E c \in Conns : ExceptCloseReturns(c)
    \/ \E c \in Conns : ExceptCloseRaises(c)

\* every connection the gateway opens, interleaved at the handlers' awaits
Spec == Init /\ [][Next]_vars

NextCall ==
    \/ Connect(1, "call-A")
    \/ \E data \in Frames : Receive(1, data)
    \/ \E exc \in Raised : ReceiveRaises(1, exc)
    \/ \E output \in Replies : InvokeReturns(1, output)
    \/ InvokeRaises(1)
    \/ SendReturns(1)
    \/ SendDisconnected(1)
    \/ SendRaises(1)
    \/ ExceptSendReturns(1)
    \/ ExceptSendRaises(1)
    \/ ExceptCloseReturns(1)
    \/ ExceptCloseRaises(1)

\* one call: a single connection, every frame the gateway can send on it
SpecCall == Init /\ [][NextCall]_vars

NextAgent ==
    \/ \E request \in ChatRequests, model \in ModelOutcomes : Chat(request, model)
    \/ \E p \in {None, Some(ParamsA)}, date \in DateStrings, time \in TimeStrings :
          InvokeCheckAvailability(p, date, time)
    \/ \E date \in DateStrings, party_size \in PartySizes :
          InvokeAgentCheckAvailability(date, party_size)
    \/ \E date \in DateStrings, time \in TimeStrings, party_size \in PartySizes,
          name \in Names :
          InvokeMakeReservation(date, time, party_size, name)

\* the chat endpoint and the tools, each called with every input
SpecAgent == Init /\ [][NextAgent]_vars

(***************************************************************************)
(* Claims about the availability store, checked under SpecStore.           *)
(***************************************************************************)
\* the latest two calls are cancel(id), cancel(id) on an id that was added and
\* was confirmed before the first of them
CancelledTwice ==
    /\ prev.op = "cancel"
    /\ last.op = "cancel"
    /\ prev.id = last.id
    /\ prev.before = "confirmed"

\* C2 as stated: cancelling a confirmed reservation twice in a row returns
\* true and then false, the status flipping to cancelled on the first call.
C2_TrueThenFalse ==
    CancelledTwice =>
        /\ prev.ret = TRUE
        /\ prev.after = "cancelled"
        /\ last.ret = FALSE
        /\ last.after = "cancelled"

\* C2 amended: cancelling a confirmed reservation twice in a row returns true
\* on both calls; the first call flips the status from confirmed to cancelled
\* and the second finds it cancelled and leaves it cancelled.
C2_TrueThenTrue ==
    CancelledTwice =>
        /\ prev.ret = TRUE
        /\ prev.after = "cancelled"
        /\ last.ret = TRUE
        /\ last.before = "cancelled"
        /\ last.after = "cancelled"

C2_Witness == CancelledTwice

\* C3: every add returns an id different from every id returned before, so
\* the store holds as many reservations as add was called.
C3_FreshIds ==
    /\ \A i, j \in DOMAIN added :
          i # j => added[i].reservation_id # added[j].reservation_id
    /\ Cardinality(DOMAIN reservations) = Len(added)

\* C4: get(R.id) returns, for every R that add returned, the date, party
\* size, name and phone passed to that add, with status confirmed until
\* cancel(R.id) was called and cancelled afterwards.
C4_RoundTrip ==
    \A i \in DOMAIN added :
        LET R == added[i]
            got == get_reservation(R.reservation_id)
        IN  /\ got # << >>
            /\ got[1].date = R.date
            /\ got[1].party_size = R.party_size
            /\ got[1].customer_name = R.customer_name
            /\ got[1].phone_number = R.phone_number
            /\ got[1].status = IF cancelCalled[i] THEN "cancelled" ELSE "confirmed"

(***************************************************************************)
(* Claims about the relay handler and its sessions.                        *)
(***************************************************************************)
\* C1: once a handler has returned because the peer disconnected, whether it
\* saw that while awaiting a frame or while sending, the registry holds no
\* entry for its call id.
C1_RemovedOnDisconnect ==
    \A c \in Conns :
        (pc[c] = "done" /\ ended[c] \in {"disconnect_on_receive", "disconnect"})
            => call_id[c] \notin DOMAIN sessions

\* the handler of connection c is running and holds a session
Live(c) == pc[c] \notin {"idle", "done"} /\ session[c] # None

\* C7: no two live sessions belong to the same call id, however many
\* connections are opened with it.
C7_OneLiveSession ==
    \A c, d \in Conns :
        (c # d /\ Live(c) /\ Live(d)) => call_id[c] # call_id[d]

\* this step is connection c's handler taking a frame from receive_json
Received(c) == inbound'.count = inbound.count + 1 /\ inbound'.conn = c

\* the transcript of connection c's session, empty while it has none
Transcript(c) == IF session[c] = None THEN << >> ELSE session[c][1].chat_history

\* the transcript of a frame is missing or empty, or has no entry with role user
NoUserEntry(data) ==
    \/ data.transcript = None
    \/ \A i \in DOMAIN data.transcript[1] : data.transcript[1][i].role # "user"

\* no user message can be extracted from a frame: it has no user entry, or
\* the content of its last user entry is empty
Unanswerable(data) ==
    \/ NoUserEntry(data)
    \/ LET t == data.transcript[1]
           users == {i \in DOMAIN t : t[i].role = "user"}
       IN  \E i \in users : t[i].content = "" /\ \A j \in users : j <= i

\* C5: a session's transcript only grows, and it grows only when
\* process_message returns, by the user turn for the message followed by the
\* assistant turn for the reply that is sent.
C5_AppendOnly ==
    [][\A c \in Conns :
        /\ session[c] # None => session'[c] # None
        /\ Transcript(c)' # Transcript(c) =>
              /\ pc[c] = "invoke"
              /\ pc'[c] = "send"
              /\ Transcript(c)' = Transcript(c) \o
                    << [role |-> "user", content |-> message[c][1]],
                       [role |-> "assistant", content |-> pending'[c][1].content] >>
        /\ (pc[c] = "invoke" /\ pc'[c] = "send") =>
              Len(Transcript(c)') = Len(Transcript(c)) + 2
      ]_vars

\* two messages were processed on one session
C5_Witness ==
    \E c \in Conns : Len(Transcript(c)) = 4 /\ pc[c] = "send"

\* C6: the parameters bound to a connection's session stay what they were,
\* whatever frame arrives later.
C6_ParamsFixed ==
    [][\A c \in Conns :
        session[c] # None =>
            /\ session'[c] # None
            /\ session'[c][1].reservation_params = session[c][1].reservation_params
      ]_vars

\* a later frame carried parameters other than the bound ones
C6_Witness ==
    /\ inbound.count >= 2
    /\ ~inbound.first
    /\ Truthy(inbound.data.metadata)
    /\ session[inbound.conn] # None
    /\ session[inbound.conn][1].reservation_params # inbound.data.metadata[1]

\* the "No message provided." error frame for a frame, echoing its
\* response_id when it gave one
NoMessageError(data) ==
    IF data.response_id = None
    THEN [error |-> "No message provided.", content_complete |-> TRUE]
    ELSE [error |-> "No message provided.", content_complete |-> TRUE,
          response_id |-> data.response_id[1]]

\* C8 as stated: a first frame carrying neither metadata nor
\* reservation_params creates no session and has an error frame sent, the
\* stream staying open.
C8_NoSessionAndError ==
    [][\A c \in Conns :
        ( /\ Received(c)
          /\ inbound'.first
          /\ inbound'.data.metadata = None
          /\ inbound'.data.reservation_params = None )
        => /\ session'[c] = None
           /\ call_id[c] \notin DOMAIN sessions'
           /\ pc'[c] = "send"
           /\ pending'[c] # None
           /\ "error" \in DOMAIN pending'[c][1]
      ]_vars

\* C8 amended: a first frame carrying no (or only empty) parameters creates
\* a session bound to the fixed fallback parameters and registers it; the
\* stream stays open and the frame is handled like any other, so no frame
\* is sent for the missing parameters.
C8_FallbackSession ==
    [][\A c \in Conns :
        ( /\ Received(c)
          /\ inbound'.first
          /\ inbound'.data.metadata \in {None, Some(EmptyDict)}
          /\ inbound'.data.reservation_params = None )
        => /\ session'[c] = Some(ReservationSession(Fallback))
           /\ call_id[c] \in DOMAIN sessions'
           /\ sessions'[call_id[c]] = c
           /\ out'[c] = out[c]
           /\ pc'[c] \in {"receive", "invoke", "send"}
           /\ pending'[c] # None =>
                 /\ inbound'.data.interaction_type = "response_required"
                 /\ Unanswerable(inbound'.data)
                 /\ pending'[c][1] = NoMessageError(inbound'.data)
      ]_vars

\* a first frame without parameters was taken and the handler awaits the next
C8_Witness ==
    /\ inbound.count = 1
    /\ inbound.first
    /\ inbound.data.metadata = None
    /\ inbound.data.reservation_params = None
    /\ pc[inbound.conn] = "receive"
    /\ session[inbound.conn] = Some(ReservationSession(Fallback))

\* C9: a frame whose interaction_type is not "response_required" has nothing
\* sent, calls no model and leaves the transcript as it was.
C9_Ignored ==
    [][\A c \in Conns :
        (Received(c) /\ inbound'.data.interaction_type # "response_required")
        => /\ out'[c] = out[c]
           /\ pending'[c] = None
           /\ pc'[c] = "receive"
           /\ Transcript(c)' = Transcript(c)
      ]_vars

\* such a frame was taken by a session that had a conversation already
C9_Witness ==
    /\ inbound.count >= 2
    /\ inbound.data.interaction_type # "response_required"
    /\ pc[inbound.conn] = "receive"
    /\ Len(Transcript(inbound.conn)) = 2
    /\ Len(out[inbound.conn]) = 2

\* C10 as stated: any frame without a user message has the "No message
\* provided." error sent, with the frame's response_id when it gave one.
C10_AnyFrame ==
    [][\A c \in Conns :
        (Received(c) /\ NoUserEntry(inbound'.data))
        => /\ pc'[c] = "send"
           /\ pending'[c] = Some(NoMessageError(inbound'.data))
      ]_vars

\* C10 amended: a response_required frame without a user message has
\* exactly the "No message provided." error sent, with the frame's
\* response_id when it gave one; when that send returns the handler awaits
\* the next frame, its session still registered and the transcript as it was.
C10_NoMessage ==
    [][\A c \in Conns :
        /\ ( /\ Received(c)
             /\ inbound'.data.interaction_type = "response_required"
             /\ Unanswerable(inbound'.data) )
           => /\ pc'[c] = "send"
              /\ pending'[c] = Some(NoMessageError(inbound'.data))
              /\ out'[c] = out[c]
              /\ Transcript(c)' = Transcript(c)
              /\ call_id[c] \in DOMAIN sessions'
              /\ sessions'[call_id[c]] = c
        /\ ( /\ pc[c] = "send"
             /\ "error" \in DOMAIN pending[c][1]
             /\ pc'[c] = "receive" )
           => /\ out'[c] = Append(out[c], pending[c][1])
              /\ pending[c][1].error = "No message provided."
              /\ session'[c] = session[c]
              /\ sessions' = sessions
      ]_vars

\* the error went out and a later frame on the same connection was answered
C10_Witness ==
    \E c \in Conns :
        /\ Len(out[c]) = 3
        /\ out[c][2] = [error |-> "No message provided.", content_complete |-> TRUE,
                        response_id |-> 0]
        /\ "content" \in DOMAIN out[c][3]
        /\ call_id[c] \in DOMAIN sessions

\* the handler of connection c has a frame in hand: it took it from
\* receive_json and has not yet sent what answers it
Busy(c) == pc[c] \in {"invoke", "send"}

\* C11: the frames of one call id are handled one at a time, in arrival
\* order: no frame of a call id is taken up while the answer to an earlier
\* frame of that call id is still to be sent.
C11_OneAtATime ==
    \A c, d \in Conns :
        (c # d /\ call_id[c] = call_id[d]) => ~(Busy(c) /\ Busy(d))

\* the reply frame for a frame and a reply text, echoing the frame's
\* response_id when it gave one
ReplyFrame(data, reply) ==
    IF data.response_id = None
    THEN [content |-> reply, content_complete |-> TRUE]
    ELSE [content |-> reply, content_complete |-> TRUE,
          response_id |-> data.response_id[1]]

\* the text process_message returned: the assistant turn it appended last
Returned(c) == Transcript(c)[Len(Transcript(c))].content

\* C12: a response_required frame with a user message has the model called;
\* when the call returns, exactly one frame is sent for it: the reply
\* process_message returned, content_complete true, and the frame's
\* response_id if and only if the frame gave one.
C12_ReplyFrame ==
    [][\A c \in Conns :
        /\ ( /\ Received(c)
             /\ inbound'.data.interaction_type = "response_required"
             /\ ~Unanswerable(inbound'.data) )
           => /\ pc'[c] = "invoke"
              /\ pending'[c] = None
              /\ out'[c] = out[c]
        /\ (pc[c] = "invoke" /\ pc'[c] = "send" /\ inbound.conn = c)
           => /\ pending'[c] = Some(ReplyFrame(inbound.data, Returned(c)'))
              /\ out'[c] = out[c]
        /\ ( /\ pc[c] = "send"
             /\ "content" \in DOMAIN pending[c][1]
             /\ pc'[c] = "receive" )
           => out'[c] = Append(out[c], pending[c][1])
      ]_vars

\* a reply echoing its frame's response_id went out, then one for a frame
\* that gave none
C12_Witness ==
    \E c \in Conns :
        /\ Len(out[c]) = 3
        /\ Len(Transcript(c)) = 4
        /\ out[c][2] = [content |-> Transcript(c)[2].content,
                        content_complete |-> TRUE, response_id |-> 0]
        /\ out[c][3] = [content |-> Transcript(c)[4].content,
                        content_complete |-> TRUE]

\* the error frame the handler sends when the model call failed
ModelError == [error |-> "model call failed", content_complete |-> TRUE]

\* C13: when the model call fails, the model is not called again for the
\* frame, the error frame is sent, the stream is closed and the call's
\* session leaves the registry, also when sending the error frame fails.
C13_TornDown ==
    [][\A c \in Conns :
        /\ pc[c] = "invoke" =>
              \/ pc'[c] = "invoke" /\ pending'[c] = None
              \/ pc'[c] = "send"
              \/ pc'[c] = "except_send" /\ pending'[c] = Some(ModelError)
        /\ (pc[c] = "except_send" /\ pending[c] = Some(ModelError)) =>
              /\ pc'[c] \in {"except_send", "except_close", "done"}
              /\ pc'[c] = "except_close" => out'[c] = Append(out[c], ModelError)
              /\ pc'[c] = "done" => call_id[c] \notin DOMAIN sessions'
        /\ (pc[c] = "except_close" /\ out[c][Len(out[c])] = ModelError) =>
              /\ pc'[c] \in {"except_close", "done"}
              /\ pc'[c] = "done" =>
                    /\ ended'[c] = "closed"
                    /\ call_id[c] \notin DOMAIN sessions'
      ]_vars

\* the content of the last entry with role user of a transcript that has one
LastUserContent(t) ==
    LET users == {i \in DOMAIN t : t[i].role = "user"}
        i == CHOOSE i \in users : \A j \in users : j <= i
    IN  t[i].content

\* C14: when process_message is called for a response_required frame whose
\* transcript has a user entry, the text passed is the content of the last
\* user entry, whatever entries of other roles follow it and whatever
\* earlier user entries say; it is called unless that content is empty.
C14_LastUserEntry ==
    [][\A c \in Conns :
        ( /\ Received(c)
          /\ inbound'.data.interaction_type = "response_required"
          /\ ~NoUserEntry(inbound'.data) )
        => LET text == LastUserContent(inbound'.data.transcript[1])
           IN  /\ message'[c] = Some(text)
               /\ pc'[c] = "invoke" <=> text # ""
      ]_vars

\* the message in hand is the later of two different user entries, and an
\* entry of another role follows it
C14_Witness ==
    \E c \in Conns :
        /\ pc[c] = "invoke"
        /\ inbound.conn = c
        /\ message[c] = Some("Table for four")
        /\ LET t == inbound.data.transcript[1]
           IN  /\ Len(t) = 3
               /\ t[1] = Entry("user", "Hello")
               /\ t[3].role = "agent"

\* C19: when the model call inside process_message fails, the error goes
\* to the handler without a second call, and the session's transcript is
\* what it was before: no user turn and no assistant turn is appended.
C19_FailureLeavesTranscript ==
    [][\A c \in Conns :
        /\ (pc[c] = "invoke" /\ pc'[c] # "invoke") =>
              \/ pc'[c] = "send" /\ Len(Transcript(c)') = Len(Transcript(c)) + 2
              \/ /\ pc'[c] = "except_send"
                 /\ pending'[c] = Some(ModelError)
                 /\ session'[c] = session[c]
        /\ pc[c] \in {"except_send", "except_close", "done"} =>
              /\ pc'[c] # "invoke"
              /\ session'[c] = session[c]
      ]_vars

\* the model call failed on the second message of a session
C19_Witness ==
    \E c \in Conns :
        /\ pc[c] = "except_send"
        /\ pending[c] = Some(ModelError)
        /\ message[c] # None
        /\ Len(Transcript(c)) = 2

(***************************************************************************)
(* Further claims about the availability store, checked under SpecStore.   *)
(***************************************************************************)
\* no add has returned this id
NeverAdded(rid) == \A i \in DOMAIN added : added[i].reservation_id # rid

\* this step is a call of cancel_reservation
Cancelled ==
    /\ last'.op = "cancel"
    /\ prev' = last
    /\ now' = now
    /\ added' = added

\* C16: cancel on an id that was never added returns false and leaves every
\* stored reservation, its id, fields and status, as it was.
C16_UnknownId ==
    [][(Cancelled /\ NeverAdded(last'.id)) =>
          /\ last'.ret = FALSE
          /\ reservations' = reservations
      ]_vars

\* cancel on an unknown id returned false while the store held a reservation
C16_Witness ==
    /\ last.op = "cancel"
    /\ NeverAdded(last.id)
    /\ last.ret = FALSE
    /\ Len(added) >= 1
    /\ DOMAIN reservations # {}

\* C18: under any sequence of add, get and cancel, an id that is present
\* stays present, its date, party size, name and phone never change, and
\* its status never goes from cancelled back to confirmed.
C18_Monotonic ==
    [][\A rid \in DOMAIN reservations :
        /\ rid \in DOMAIN reservations'
        /\ reservations'[rid].date = reservations[rid].date
        /\ reservations'[rid].party_size = reservations[rid].party_size
        /\ reservations'[rid].customer_name = reservations[rid].customer_name
        /\ reservations'[rid].phone_number = reservations[rid].phone_number
        /\ reservations[rid].status = "cancelled" =>
              reservations'[rid].status = "cancelled"
      ]_vars

(***************************************************************************)
(* Claims about the chat endpoint and the tools, checked under SpecAgent.  *)
(***************************************************************************)
\* C15: POST /chat answers {response: reply} whenever the model call
\* succeeds, and answers HTTP 500 with a detail only when processing the
\* message fails.
C15_ChatReplies ==
    http # None =>
        LET x == http[1]
        IN  /\ x.model.kind = "return" =>
                  /\ x.response.status = 200
                  /\ x.response.body = [response |-> x.model.value]
            /\ x.response.status = 500 =>
                  /\ x.model.kind = "raise"
                  /\ "detail" \in DOMAIN x.response.body

\* C17: no tool invocation raises, whatever the input: an exception raised
\* while the tool computes its output comes back as the value {"error":
\* message}; check_availability with a date that is not a YYYY-MM-DD date
\* returns a dict with the key error, and with a good date and parameters
\* the availability.
C17_ErrorsAreValues ==
    tool_call # None =>
        LET x == tool_call[1]
        IN  /\ x.result.kind = "return"
            /\ x.tool = "initialize_agent.check_availability" =>
                  LET date_obj == strptime(x.args.date)
                  IN  IF date_obj.kind = "raise"
                      THEN x.result.value = [error |-> date_obj.msg]
                      ELSE IF x.args.reservation_params = None
                      THEN DOMAIN x.result.value = {"error"}
                      ELSE DOMAIN x.result.value = {"available", "suggested_times"}
            /\ x.tool # "initialize_agent.check_availability" =>
                  "error" \notin DOMAIN x.result.value

\* check_availability was invoked with "invalid-date" and returned the error
C17_Witness ==
    /\ tool_call # None
    /\ tool_call[1].tool = "initialize_agent.check_availability"
    /\ tool_call[1].args.date =
          <<"i", "n", "v", "a", "l", "i", "d", "-", "d", "a", "t", "e">>
    /\ tool_call[1].result = Return([error |-> "time data does not match format '%Y-%m-%d'"])

====
